---- MODULE Spec2Model ----
(***************************************************************************)
(* Model of the persistent artifact cache of pdfwordtopic                  *)
(* (src/cache_manager.py, class CacheManager), of the worker pool that     *)
(* drives it (src/document_converter.py, DocumentConverter.convert_files)  *)
(* and of the SecurityManager that validates inputs and encrypts outputs   *)
(* (src/security_manager.py, src/security.py).                             *)
(*                                                                         *)
(* The cache directory holds one blob file per entry, named by the sha256  *)
(* hex digest of the logical key, and the document metadata.json.  The     *)
(* in-memory index self.metadata is a Python dict (insertion ordered),     *)
(* modelled as a sequence of <<key, entry>> items.                         *)
(***************************************************************************)
EXTENDS Integers, Sequences, FiniteSets, TLC

(***************************************************************************)
(* Bounds of the model and configuration of the instance under study.      *)
(***************************************************************************)
MaxTicks == 2          \* how far the clock advances past its start
MaxWorkers == 2        \* ThreadPoolExecutor(max_workers=...)
max_size_bytes == 1000 \* CacheManager(max_size_bytes=...)
ttl_seconds == 1       \* CacheManager(ttl_seconds=...)

Keys == {"a", "b"}

\* Payloads handed to set(): bytes, text, a JSON-serialisable list (what
\* DocumentConverter stores), and an object json.dumps cannot serialise.
\* body identifies the content, len is its length (bytes or characters).
BytesOf(body, len) == [body |-> body, kind |-> "bytes", len |-> len]
NoData == [body |-> "", kind |-> "none", len |-> 0]
Values ==
  { BytesOf("x", 600), BytesOf("y", 600), BytesOf("", 0),
    [body |-> "s", kind |-> "str", len |-> 300],
    [body |-> "p", kind |-> "list", len |-> 13],
    [body |-> "o", kind |-> "object", len |-> 1] }

\* Caller-supplied metadata dicts (None and {} behave alike: "metadata or {}").
NoExtra == <<>>
Extras == { NoExtra, [pages |-> 1], [timestamp |-> 0] }

VARIABLES
  cache_dir,      \* TRUE iff the cache directory exists
  files,          \* blob files: storage id -> content, or NoData when absent
  metadata_file,  \* the persisted document metadata.json
  metadata,       \* self.metadata of the live instance
  now,            \* time.time()
  restarted,      \* TRUE iff a new instance was constructed since the last call
  prev,           \* the call before the last one, kept when it was a set
  last,           \* the last completed call and what it returned
  lock,           \* self.lock: 0 when free, else the worker holding it
  pc,             \* where each pool worker stands in its call
  job,            \* the call each pool worker is making
  snap,           \* directory and index as the worker found them on entry
  ret,            \* what the worker's call is about to return
  key_file,       \* the file encryption.key of the security directory
  api_keys_file,  \* the file api_keys.json
  encryption_key, \* self.encryption_key of the live SecurityManager
  api_keys,       \* self.api_keys of the live SecurityManager
  cipher,         \* the ciphertext the caller got from its last encryption
  out,            \* the last SecurityManager call and what it returned
  file_paths,     \* convert_files: the batch
  validate,       \* convert_files: the validate argument
  futures,        \* convert_files: the jobs submitted to the executor
  successful_files, \* convert_files: jobs counted as successful
  cpc,            \* where convert_files stands
  idx,            \* the index of the loop convert_files is in
  result          \* what convert_files returned last

pool == <<lock, pc, job, snap, ret>>

cachestate == <<cache_dir, files, metadata_file, metadata, now, restarted, prev, last, pool>>

security == <<key_file, api_keys_file, encryption_key, api_keys, cipher, out>>

converter == <<file_paths, validate, futures, successful_files, cpc, idx, result>>

vars == <<cache_dir, files, metadata_file, metadata, now, restarted, prev, last,
          lock, pc, job, snap, ret, security, converter>>

(***************************************************************************)
(* _get_cache_path: the storage identifier is the sha256 digest of the key *)
(* (first eight hex digits shown).                                         *)
(***************************************************************************)
hashed_key(key) ==
  CASE key = "a" -> "ca978112"
    [] key = "b" -> "3e23e816"

StorageIds == { hashed_key(k) : k \in Keys }

(***************************************************************************)
(* The dict self.metadata as a sequence of items in insertion order.       *)
(***************************************************************************)
Has(m, key) == \E i \in 1..Len(m) : m[i].key = key

Lookup(m, key) == m[CHOOSE i \in 1..Len(m) : m[i].key = key].val

\* m[key] = val: an existing key keeps its position, a new one is appended
Put(m, key, val) ==
  IF Has(m, key)
    THEN [i \in 1..Len(m) |-> IF m[i].key = key THEN [key |-> key, val |-> val] ELSE m[i]]
    ELSE Append(m, [key |-> key, val |-> val])

\* a pop that takes every other entry with it
PopAll(m, key) == <<>>

\* m.pop(key, None)
Pop(m, key) == SelectSeq(m, LAMBDA it : it.key # key)

\* entry.get(field, 0)
Field(entry, field) == IF field \in DOMAIN entry THEN entry[field] ELSE 0

\* {'timestamp': t, 'size': n, **extra}: extra's fields win
Entry(t, n, extra) ==
  LET base == [size |-> n, timestamp |-> t]
  IN [f \in (DOMAIN base) \cup (DOMAIN extra) |->
        IF f \in DOMAIN extra THEN extra[f] ELSE base[f]]

(***************************************************************************)
(* What set() writes into the blob for a value.                            *)
(***************************************************************************)
Serialisable(value) == value.kind \in {"bytes", "str", "list"}

Encode(value) ==
  CASE value.kind = "bytes" -> value
    [] value.kind = "str" -> BytesOf(value.body, value.len)       \* value.encode()
    [] value.kind = "list" -> BytesOf("[\"p\"]", value.len + 4)  \* json.dumps(["p"]).encode()
    [] OTHER -> NoData

(***************************************************************************)
(* The persisted document: absent, unreadable (truncated by a failed       *)
(* write) or holding a dump of the index.                                  *)
(***************************************************************************)
DocAbsent == [content |-> <<>>, state |-> "absent"]
DocCorrupt == [content |-> <<>>, state |-> "corrupt"]
DocOf(m) == [content |-> m, state |-> "ok"]

RECURSIVE Digits(_)
Digits(n) == IF n < 10 THEN 1 ELSE 1 + Digits(n \div 10)

RECURSIVE SumLen(_, _)
SumLen(m, i) ==
  IF i > Len(m) THEN 0
  ELSE LET e == m[i].val
           extraLen == IF "pages" \in DOMAIN e THEN 12 ELSE 0
       \* "k": {"timestamp": 1700000000.1234567, "size": n}
       IN (5 + 14 + 18 + 10 + Digits(Field(e, "size")) + extraLen + 1)
          + (IF i > 1 THEN 2 ELSE 0) + SumLen(m, i + 1)

\* st_size of metadata.json
DocSize(doc) ==
  CASE doc.state = "absent" -> 0
    [] doc.state = "corrupt" -> 0
    [] OTHER -> 2 + SumLen(doc.content, 1)

\* The disk and the index as one value, threaded through the helpers.
Cur == [dir |-> cache_dir, doc |-> metadata_file, files |-> files, metadata |-> metadata]

\* cache_path.exists()
Exists(s, key) == s.files[hashed_key(key)] # NoData

(***************************************************************************)
(* _save_metadata: open(metadata_file, 'w') truncates, json.dump writes    *)
(* the whole index; every exception is caught and reported as False.       *)
(***************************************************************************)
save_metadata(s, fault) ==
  IF ~s.dir \/ fault = "save_open"
    THEN [ret |-> FALSE, s |-> s]
  ELSE IF fault = "save_write"
    THEN [ret |-> FALSE, s |-> [s EXCEPT !.doc = DocCorrupt]]
  ELSE [ret |-> TRUE, s |-> [s EXCEPT !.doc = DocOf(s.metadata)]]

(***************************************************************************)
(* _load_metadata: a missing or unreadable document yields {}.             *)
(***************************************************************************)
load_metadata(s, fault) ==
  IF s.doc.state = "ok" /\ fault # "read" THEN s.doc.content ELSE <<>>

(***************************************************************************)
(* _remove_item: unlink the blob if present, pop the index entry, persist. *)
(* The result of _save_metadata is not looked at.                          *)
(***************************************************************************)
\* a removal that unlinks the blob and leaves the index entry behind
remove_item_keeps_entry(s, key, fault) ==
  [ret |-> TRUE,
   s |-> save_metadata([s EXCEPT !.files[hashed_key(key)] = NoData], fault).s]

remove_item(s, key, fault) ==
  IF fault = "exists" \/ (Exists(s, key) /\ fault = "unlink")
    THEN [ret |-> FALSE, s |-> s]
  ELSE LET s1 == [s EXCEPT !.files[hashed_key(key)] = NoData,
                           !.metadata = Pop(s.metadata, key)]
       IN [ret |-> TRUE, s |-> save_metadata(s1, fault).s]

(***************************************************************************)
(* _get_cache_size: the sizes of all regular files of the directory, the   *)
(* blobs and metadata.json alike.                                          *)
(***************************************************************************)
RECURSIVE SumFiles(_, _)
SumFiles(fs, ids) ==
  IF ids = {} THEN 0
  ELSE LET id == CHOOSE x \in ids : TRUE
       IN fs[id].len + SumFiles(fs, ids \ {id})

get_cache_size(s) ==
  IF s.dir THEN SumFiles(s.files, StorageIds) + DocSize(s.doc) ELSE 0

(***************************************************************************)
(* sorted(self.metadata.items(), key=timestamp): a stable sort.            *)
(***************************************************************************)
RECURSIVE InsertByTimestamp(_, _)
InsertByTimestamp(sorted, it) ==
  IF sorted = <<>> THEN <<it>>
  ELSE IF Field(Head(sorted).val, "timestamp") <= Field(it.val, "timestamp")
    THEN <<Head(sorted)>> \o InsertByTimestamp(Tail(sorted), it)
    ELSE <<it>> \o sorted

RECURSIVE SortItems(_, _)
SortItems(m, n) ==
  IF n = 0 THEN <<>> ELSE InsertByTimestamp(SortItems(m, n - 1), m[n])

sorted_items(m) == SortItems(m, Len(m))

(***************************************************************************)
(* _cleanup_old_items: remove oldest entries until the running total is    *)
(* at most 80% of the ceiling.                                             *)
(***************************************************************************)
RECURSIVE SweepFrom(_, _, _, _, _)
SweepFrom(s, items, i, current_size, fault) ==
  IF i > Len(items) \/ current_size * 10 <= max_size_bytes * 8
    THEN s
  ELSE LET key == items[i].key
           item_size == Field(Lookup(s.metadata, key), "size")
           r == remove_item(s, key, fault)
       IN SweepFrom(r.s, items, i + 1,
                    IF r.ret THEN current_size - item_size ELSE current_size,
                    fault)

cleanup_old_items(s, fault) ==
  IF s.metadata = <<>> THEN s
  ELSE SweepFrom(s, sorted_items(s.metadata), 1, get_cache_size(s), fault)

(***************************************************************************)
(* _cleanup_expired: the cold sweep of __init__.                           *)
(***************************************************************************)
ExpiredAtBoundary(entry, t) == t - Field(entry, "timestamp") >= ttl_seconds

Expired(entry, t) == t - Field(entry, "timestamp") > ttl_seconds

RECURSIVE RemoveAll(_, _, _, _)
RemoveAll(s, keys, i, fault) ==
  IF i > Len(keys) THEN s
  ELSE RemoveAll(remove_item(s, keys[i].key, fault).s, keys, i + 1, fault)

cleanup_expired(s, fault, t) ==
  RemoveAll(s, SelectSeq(s.metadata, LAMBDA it : Expired(it.val, t)), 1, fault)

(***************************************************************************)
(* CacheManager.get.  The body of the try block yields the returned data   *)
(* or an exception; the except clause turns every exception into None.     *)
(***************************************************************************)
\* a get that stamps the entry it returns with the time of the read
get_try_refresh(s, key, fault, t) ==
  IF Exists(s, key) /\ Has(s.metadata, key) /\ ~Expired(Lookup(s.metadata, key), t)
    THEN [data |-> s.files[hashed_key(key)], exc |-> FALSE,
          s |-> [s EXCEPT !.metadata =
                   Put(s.metadata, key, [Lookup(s.metadata, key) EXCEPT !.timestamp = t])]]
    ELSE [data |-> NoData, exc |-> FALSE, s |-> s]

\* a get that rewrites the persisted document on every miss
get_try_touch(s, key, fault, t) ==
  IF ~Exists(s, key)
    THEN [data |-> NoData, exc |-> FALSE, s |-> save_metadata(s, fault).s]
  ELSE IF Expired(IF Has(s.metadata, key) THEN Lookup(s.metadata, key) ELSE <<>>, t)
    THEN [data |-> NoData, exc |-> FALSE, s |-> remove_item(s, key, fault).s]
  ELSE [data |-> s.files[hashed_key(key)], exc |-> FALSE, s |-> s]

get_try(s, key, fault, t) ==
  IF fault = "exists"
    THEN [data |-> NoData, exc |-> TRUE, s |-> s]
  ELSE IF ~Exists(s, key)
    THEN [data |-> NoData, exc |-> FALSE, s |-> s]
  ELSE IF Expired(IF Has(s.metadata, key) THEN Lookup(s.metadata, key) ELSE <<>>, t)
    THEN [data |-> NoData, exc |-> FALSE, s |-> remove_item(s, key, fault).s]
  ELSE IF fault = "read"
    THEN [data |-> NoData, exc |-> TRUE, s |-> s]
  ELSE [data |-> s.files[hashed_key(key)], exc |-> FALSE, s |-> s]

\* a get without the except clause
get_propagates(s, key, fault, t) ==
  LET r == get_try(s, key, fault, t)
  IN [data |-> r.data, raised |-> r.exc, s |-> r.s]

get(s, key, fault, t) ==
  LET r == get_try(s, key, fault, t)
  IN [data |-> IF r.exc THEN NoData ELSE r.data, raised |-> FALSE, s |-> r.s]

(***************************************************************************)
(* CacheManager.set.  The size check comes before the blob is written;     *)
(* open(cache_path, 'wb') truncates the blob before anything is written.   *)
(***************************************************************************)
set_try(s, key, value, extra, fault, t) ==
  IF fault = "size"
    THEN [exc |-> TRUE, s |-> s]
  ELSE
    LET s1 == IF get_cache_size(s) > max_size_bytes
                THEN cleanup_old_items(s, fault) ELSE s
        id == hashed_key(key)
    IN IF ~s1.dir \/ fault = "write_open"
         THEN [exc |-> TRUE, s |-> s1]
       ELSE IF ~Serialisable(value) \/ fault = "write"
         THEN [exc |-> TRUE, s |-> [s1 EXCEPT !.files[id] = BytesOf("", 0)]]
       ELSE
         LET s2 == [s1 EXCEPT !.files[id] = Encode(value)]
         IN IF fault = "stat"
              THEN [exc |-> TRUE, s |-> s2]
            ELSE
              LET s3 == [s2 EXCEPT !.metadata =
                           Put(s2.metadata, key, Entry(t, s2.files[id].len, extra))]
              IN [exc |-> FALSE, s |-> save_metadata(s3, fault).s]

set(s, key, value, extra, fault, t) ==
  LET r == set_try(s, key, value, extra, fault, t)
  IN [raised |-> FALSE, ret |-> ~r.exc, s |-> r.s]

(***************************************************************************)
(* CacheManager.invalidate: _remove_item under the lock.                   *)
(***************************************************************************)
invalidate(s, key, fault) ==
  LET r == remove_item(s, key, fault)
  IN [raised |-> FALSE, ret |-> r.ret, s |-> r.s]

(***************************************************************************)
(* CacheManager.clear: rmtree, mkdir, reset the index, persist.            *)
(***************************************************************************)
\* a clear that unlinks the blobs the index knows and leaves the others
clear_try_indexed(s, fault) ==
  LET s1 == [s EXCEPT !.dir = TRUE,
                      !.files = [id \in StorageIds |->
                                   IF \E k \in Keys : id = hashed_key(k) /\ Has(s.metadata, k)
                                     THEN NoData ELSE s.files[id]],
                      !.metadata = <<>>]
  IN [exc |-> FALSE, s |-> save_metadata(s1, fault).s]

clear_try(s, fault) ==
  IF ~s.dir \/ fault = "rmtree"
    THEN [exc |-> TRUE, s |-> s]
  ELSE
    LET s1 == [s EXCEPT !.dir = FALSE,
                        !.files = [id \in StorageIds |-> NoData],
                        !.doc = DocAbsent]
    IN IF fault = "mkdir"
         THEN [exc |-> TRUE, s |-> s1]
       ELSE [exc |-> FALSE,
             s |-> save_metadata([s1 EXCEPT !.dir = TRUE, !.metadata = <<>>], fault).s]

clear(s, fault) ==
  LET r == clear_try(s, fault)
  IN [raised |-> FALSE, ret |-> ~r.exc, s |-> r.s]

(***************************************************************************)
(* CacheManager.__init__ over the directory left by earlier instances.     *)
(***************************************************************************)
init(s, fault, t) ==
  LET s1 == [s EXCEPT !.dir = TRUE]
      s2 == [s1 EXCEPT !.metadata = load_metadata(s1, fault)]
  IN cleanup_expired(s2, fault, t)

(***************************************************************************)
(* What a process that dies inside a call leaves in the directory.  The    *)
(* point names the step during which it dies: "write" while the blob is    *)
(* being written, "stat" after the blob is closed, "save_open" right after *)
(* open(metadata_file, 'w') has truncated the document, "save_write" while *)
(* json.dump is writing it; "unlink" after the blob is unlinked.           *)
(***************************************************************************)
SetCrashPoints == {"write", "stat", "save_open", "save_write"}
InvalidateCrashPoints == {"unlink", "save_open", "save_write"}

set_crash(s, key, value, point, t) ==
  LET s1 == IF get_cache_size(s) > max_size_bytes
              THEN cleanup_old_items(s, "none") ELSE s
      id == hashed_key(key)
  IN CASE point = "write" -> [s1 EXCEPT !.files[id] = BytesOf("", 0)]
       [] point = "stat" -> [s1 EXCEPT !.files[id] = Encode(value)]
       [] OTHER -> [s1 EXCEPT !.files[id] = Encode(value), !.doc = DocCorrupt]

invalidate_crash(s, key, point) ==
  LET s1 == [s EXCEPT !.files[hashed_key(key)] = NoData]
  IN IF point = "unlink" THEN s1 ELSE [s1 EXCEPT !.doc = DocCorrupt]

(***************************************************************************)
(* SecurityManager: key handling and encryption (src/security_manager.py,  *)
(* src/security.py).  The two classes load or create the key and build     *)
(* their Fernet the same way; they are modelled as one instance that has   *)
(* the calls of both.                                                      *)
(***************************************************************************)
\* os.urandom(32), the random bytes Fernet.generate_key draws
KeyMaterial == {"r1", "r2"}

urlsafe_b64encode(x) == [b64 |-> x]

urlsafe_b64decode(y) == y.b64

\* Fernet.generate_key(): the url-safe base64 text of 32 random bytes
generate_key(r) == urlsafe_b64encode(r)

NoKey == urlsafe_b64encode("")
NoKeyFile == [bytes |-> urlsafe_b64encode(NoKey), exists |-> FALSE]

\* A Fernet token: what was encrypted, under which key, and whether the
\* bytes are still the ones encrypt produced.
NoToken == [key |-> NoKey, kind |-> "none", plain |-> NoData, state |-> "none"]

\* Fernet.encrypt accepts bytes only (TypeError otherwise)
fernet_encrypt(key, data) ==
  IF data.kind \in {"bytes", "json_bytes"}
    THEN [data |-> [key |-> key, kind |-> "token", plain |-> data, state |-> "intact"],
          exc |-> FALSE]
    ELSE [data |-> NoToken, exc |-> TRUE]

\* Fernet.decrypt verifies the HMAC under the key before it decrypts
\* (InvalidToken otherwise)
fernet_decrypt(key, token) ==
  IF token.kind = "token" /\ token.key = key /\ token.state = "intact"
    THEN [data |-> token.plain, exc |-> FALSE]
    ELSE [data |-> NoData, exc |-> TRUE]

\* str.encode(): text to bytes; bytes have no encode (AttributeError)
str_encode(v) ==
  CASE v.kind = "str" -> [data |-> BytesOf(v.body, v.len), exc |-> FALSE]
    [] v.kind = "json" -> [data |-> [body |-> v.body, kind |-> "json_bytes"], exc |-> FALSE]
    [] v.kind = "token_str" -> [data |-> [v EXCEPT !.kind = "token"], exc |-> FALSE]
    [] OTHER -> [data |-> NoData, exc |-> TRUE]

\* bytes.decode(): bytes to text
bytes_decode(v) ==
  CASE v.kind = "bytes" -> [body |-> v.body, kind |-> "str", len |-> v.len]
    [] v.kind = "json_bytes" -> [body |-> v.body, kind |-> "json"]
    [] v.kind = "token" -> [v EXCEPT !.kind = "token_str"]
    [] OTHER -> v

json_dumps(d) == [body |-> d, kind |-> "json"]

\* json.loads: JSONDecodeError on text that is not a JSON document
json_loads(v) ==
  IF v.kind = "json" THEN [data |-> v.body, exc |-> FALSE]
  ELSE [data |-> <<>>, exc |-> TRUE]

(***************************************************************************)
(* _load_or_create_key: an existing key file is read and decoded; else a   *)
(* new key is generated and its encoding written.                          *)
(***************************************************************************)
\* a key loader that generates and writes a key on every construction
load_or_create_key_fresh(file, r) ==
  LET key == generate_key(r)
  IN [file |-> [bytes |-> urlsafe_b64encode(key), exists |-> TRUE], key |-> key]

load_or_create_key(file, r) ==
  IF file.exists
    THEN [file |-> file, key |-> urlsafe_b64decode(file.bytes)]
  ELSE LET key == generate_key(r)
       IN [file |-> [bytes |-> urlsafe_b64encode(key), exists |-> TRUE], key |-> key]

(***************************************************************************)
(* encrypt_data / decrypt_data (security_manager.py): bytes to bytes; every *)
(* exception is logged and raised again.                                   *)
(***************************************************************************)
encrypt_data(key, data) == fernet_encrypt(key, data)

decrypt_data(key, encrypted_data) == fernet_decrypt(key, encrypted_data)

(***************************************************************************)
(* encrypt / decrypt (security.py): text to text.                          *)
(***************************************************************************)
encrypt(key, data) ==
  LET e == str_encode(data)
      c == fernet_encrypt(key, e.data)
  IN IF e.exc \/ c.exc
       THEN [data |-> NoToken, exc |-> TRUE]
       ELSE [data |-> bytes_decode(c.data), exc |-> FALSE]

\* a decrypt that hands back the decrypted bytes as they are
decrypt_undecoded(key, encrypted_data) ==
  LET e == str_encode(encrypted_data)
  IN IF e.exc THEN [data |-> NoData, exc |-> TRUE]
     ELSE fernet_decrypt(key, e.data)

decrypt(key, encrypted_data) ==
  LET e == str_encode(encrypted_data)
      d == fernet_decrypt(key, e.data)
  IN IF e.exc \/ d.exc
       THEN [data |-> NoData, exc |-> TRUE]
       ELSE [data |-> bytes_decode(d.data), exc |-> FALSE]

(***************************************************************************)
(* The api_keys dict (service -> encrypted key) and its file.              *)
(***************************************************************************)
Services == {"ocr"}

\* {}
NoApiKeys == [service \in Services |-> NoToken]
NoApiKeysFile == [exists |-> FALSE, text |-> NoToken]

\* _load_api_keys: the body of the try block
load_api_keys_try(file, key) ==
  LET d == decrypt(key, file.text)
      j == json_loads(d.data)
  IN IF d.exc \/ j.exc
       THEN [data |-> NoApiKeys, exc |-> TRUE]
       ELSE [data |-> j.data, exc |-> FALSE]

\* _load_api_keys: "except: return {}"
load_api_keys(file, key) ==
  IF file.exists
    THEN LET r == load_api_keys_try(file, key)
         IN IF r.exc THEN NoApiKeys ELSE r.data
    ELSE NoApiKeys

\* _save_api_keys
save_api_keys(keys, key) ==
  [exists |-> TRUE, text |-> encrypt(key, json_dumps(keys)).data]

\* add_api_key
add_api_key(keys, key, service, secret) ==
  LET keys1 == [keys EXCEPT ![service] = encrypt(key, secret).data]
  IN [file |-> save_api_keys(keys1, key), keys |-> keys1]

\* get_api_key: None for an unknown service
get_api_key(keys, key, service) ==
  IF keys[service].kind # "none"
    THEN decrypt(key, keys[service])
    ELSE [data |-> NoData, exc |-> FALSE]

NoCipher == [later |-> FALSE, payload |-> NoData, token |-> NoToken]
NoOut == [op |-> "none"]

(***************************************************************************)
(* SecurityManager.validate_file and validate_url (security_manager.py).   *)
(***************************************************************************)
max_file_size == 104857600  \* 100 * 1024 * 1024
max_url_size == 10485760    \* 10 * 1024 * 1024

allowed_mime_types ==
  { "application/pdf", "application/msword",
    "application/vnd.openxmlformats-officedocument.wordprocessingml.document",
    "text/html", "text/plain" }

\* _load_blocked_domains: the list found in blocked_domains.json
blocked_domains == {"evil.com"}

\* A file: whether the path exists, its st_size, the type libmagic detects
\* and its bytes as a sequence of fragments.
\* pattern in content
Contains(content, pattern) == \E i \in DOMAIN content : content[i] = pattern

\* _contains_malicious_content: a file that cannot be read counts as risky
contains_malicious_content(file, fault) ==
  IF fault = "read" THEN TRUE
  ELSE IF Contains(file.content, "<script") \/ Contains(file.content, "javascript:")
    THEN TRUE
  ELSE IF Contains(file.content, "eval(") \/ Contains(file.content, "exec(")
    THEN TRUE
  ELSE IF Contains(file.content, "system(") \/ Contains(file.content, "shell_exec(")
    THEN TRUE
  ELSE FALSE

\* a validation that turns away a file of exactly the maximum size
validate_file_try_strict(file, fault) ==
  IF ~file.exists
    THEN [exc |-> FALSE, ret |-> FALSE, steps |-> <<"exists">>]
  ELSE IF file.size >= max_file_size
    THEN [exc |-> FALSE, ret |-> FALSE, steps |-> <<"exists", "size">>]
  ELSE IF file.mime \notin allowed_mime_types
    THEN [exc |-> FALSE, ret |-> FALSE, steps |-> <<"exists", "size", "type">>]
  ELSE [exc |-> FALSE, ret |-> ~contains_malicious_content(file, fault),
        steps |-> <<"exists", "size", "type", "scan">>]

\* validate_file: the body of the try block; steps lists the checks made
validate_file_try(file, fault) ==
  IF ~file.exists
    THEN [exc |-> FALSE, ret |-> FALSE, steps |-> <<"exists">>]
  ELSE IF fault = "stat"
    THEN [exc |-> TRUE, ret |-> FALSE, steps |-> <<"exists", "size">>]
  ELSE IF file.size > max_file_size
    THEN [exc |-> FALSE, ret |-> FALSE, steps |-> <<"exists", "size">>]
  ELSE IF fault = "magic"
    THEN [exc |-> TRUE, ret |-> FALSE, steps |-> <<"exists", "size", "type">>]
  ELSE IF file.mime \notin allowed_mime_types
    THEN [exc |-> FALSE, ret |-> FALSE, steps |-> <<"exists", "size", "type">>]
  ELSE IF contains_malicious_content(file, fault)
    THEN [exc |-> FALSE, ret |-> FALSE, steps |-> <<"exists", "size", "type", "scan">>]
  ELSE [exc |-> FALSE, ret |-> TRUE, steps |-> <<"exists", "size", "type", "scan">>]

\* validate_file: every exception is logged and turned into False
validate_file(file, fault) ==
  LET r == validate_file_try(file, fault)
  IN [ret |-> ~r.exc /\ r.ret, steps |-> r.steps]

\* re.match(r'^https?://', url): the match is case sensitive
re_match_http(url) == url.scheme \in {"http", "https"}

\* urlparse(url).netloc: everything between "//" and the path
netloc(url) ==
  (IF url.userinfo # "" THEN url.userinfo \o "@" ELSE "")
    \o url.host
    \o (IF url.port # "" THEN ":" \o url.port ELSE "")

\* int(content_length): ValueError on text that is not a number
int(text) ==
  CASE text = "10485760" -> [exc |-> FALSE, val |-> 10485760]
    [] text = "10485761" -> [exc |-> FALSE, val |-> 10485761]
    [] OTHER -> [exc |-> TRUE, val |-> 0]

\* content_type.split(';')[0]
split_params(content_type) ==
  CASE content_type = "text/html; charset=utf-8" -> "text/html"
    [] OTHER -> content_type

\* requests.head(url, allow_redirects=True, timeout=5): one HEAD request
\* and one more for every redirect followed; raises when the server cannot
\* be reached in time
requests_head(url, net) ==
  [exc |-> net.error, requests |-> IF net.error THEN 1 ELSE net.hops + 1]

\* validate_url: the body of the try block.  A header that is missing or
\* empty is falsy: the size check is passed over.
validate_url_try(url, net) ==
  IF ~re_match_http(url)
    THEN [exc |-> FALSE, requests |-> 0, ret |-> FALSE, steps |-> <<"scheme">>]
  ELSE IF netloc(url) \in blocked_domains
    THEN [exc |-> FALSE, requests |-> 0, ret |-> FALSE, steps |-> <<"scheme", "blocklist">>]
  ELSE
    LET h == requests_head(url, net)
        probed == <<"scheme", "blocklist", "head">>
    IN IF h.exc
         THEN [exc |-> TRUE, requests |-> h.requests, ret |-> FALSE, steps |-> probed]
       ELSE IF net.status # 200
         THEN [exc |-> FALSE, requests |-> h.requests, ret |-> FALSE,
               steps |-> probed \o <<"status">>]
       ELSE IF net.content_length # "" /\ int(net.content_length).exc
         THEN [exc |-> TRUE, requests |-> h.requests, ret |-> FALSE,
               steps |-> probed \o <<"status", "length">>]
       ELSE IF net.content_length # "" /\ int(net.content_length).val > max_url_size
         THEN [exc |-> FALSE, requests |-> h.requests, ret |-> FALSE,
               steps |-> probed \o <<"status", "length">>]
       ELSE IF split_params(net.content_type) \notin allowed_mime_types
         THEN [exc |-> FALSE, requests |-> h.requests, ret |-> FALSE,
               steps |-> probed \o <<"status", "length", "type">>]
       ELSE [exc |-> FALSE, requests |-> h.requests, ret |-> TRUE,
             steps |-> probed \o <<"status", "length", "type">>]

validate_url(url, net) ==
  LET r == validate_url_try(url, net)
  IN [requests |-> r.requests, ret |-> ~r.exc /\ r.ret, steps |-> r.steps]

(***************************************************************************)
(* DocumentConverter.convert_files (document_converter.py).                *)
(***************************************************************************)
MaxFiles == 3          \* the longest batch handed to convert_files

\* the key under which a file's images are cached; "a" and "b" stand for
\* f"{file_path}:{format}:{quality}:{dpi}:{optimize}" of the two paths
cache_key(file) == file.path

\* analyze_document raises FileNotFoundError for a missing file
analyze_document(file) == [exc |-> ~file.exists]

\* _save_cached_images: the loop copies every path of a list of paths; over
\* the bytes of a blob it iterates the byte values, open() or Path() raises
\* on the first one and the except clause returns False
save_cached_images(cached_data) == cached_data.kind = "list"

\* _convert_to_images: not implemented, returns None
convert_to_images(file) == <<>>

\* _convert_single_file: the body of the try block; steps lists the calls
\* made ("copy" is _save_cached_images, "render" is _convert_to_images)
convert_single_file_try(s, file, t) ==
  IF analyze_document(file).exc
    THEN [exc |-> TRUE, ret |-> FALSE, s |-> s, steps |-> <<"analyze">>]
  ELSE
    LET g == get(s, cache_key(file), "none", t)
    IN IF g.data # NoData /\ g.data.len > 0
         THEN [exc |-> FALSE, ret |-> save_cached_images(g.data), s |-> g.s,
               steps |-> <<"analyze", "key", "get", "copy">>]
       \* "if not images: return False"; the code after it is never reached
       ELSE [exc |-> FALSE, ret |-> convert_to_images(file) # <<>>, s |-> g.s,
             steps |-> <<"analyze", "key", "get", "render">>]

\* _convert_single_file: every exception is logged and turned into False
convert_single_file(s, file, t) ==
  LET r == convert_single_file_try(s, file, t)
  IN [ret |-> ~r.exc /\ r.ret, s |-> r.s, steps |-> r.steps]

\* a loop that submits every file, whatever validation says
RejectedNever(file, v) == FALSE

\* "if validate and not self.security_manager.validate_file(file_path)"
Rejected(file, v) == v /\ ~validate_file(file, "none").ret

\* the end of convert_files: the success rate divides by the number of
\* files (ZeroDivisionError for an empty batch, caught by the except clause)
convert_files_return(total_files, successful) ==
  IF total_files = 0 THEN FALSE ELSE successful > 0

NoResult == [raised |-> FALSE, ret |-> FALSE, returned |-> FALSE]

(***************************************************************************)
(* The state machine: one action per public operation, each a whole call   *)
(* (the lock makes calls of one instance mutually exclusive).              *)
(***************************************************************************)
NoCall ==
  [data |-> NoData, extra |-> NoExtra, fault |-> "none", fresh |-> FALSE,
   key |-> "", ok |-> FALSE, op |-> "none", raised |-> FALSE,
   restarted |-> FALSE, time |-> 0, value |-> NoData]

\* nothing on disk and nothing in the index
Fresh(s) ==
  /\ s.metadata = <<>>
  /\ s.doc.content = <<>>
  /\ \A id \in StorageIds : s.files[id] = NoData

Store(s) ==
  /\ cache_dir' = s.dir
  /\ files' = s.files
  /\ metadata_file' = s.doc
  /\ metadata' = s.metadata

Commit(s, call) ==
  /\ Store(s)
  /\ prev' = IF last.op = "set" THEN last ELSE NoCall
  /\ last' = [call EXCEPT !.time = now, !.restarted = restarted, !.fresh = Fresh(Cur)]
  /\ restarted' = FALSE
  /\ UNCHANGED <<now, pool, security, converter>>

StartTime == ttl_seconds + 1

Workers == 1..MaxWorkers

NoJob == [key |-> "", op |-> "none", time |-> 0, value |-> NoData]
NoRet == [data |-> NoData, ok |-> FALSE]
NoSnap == [dir |-> TRUE, doc |-> DocAbsent,
           files |-> [id \in StorageIds |-> NoData], metadata |-> <<>>]

Init ==
  /\ cache_dir = TRUE
  /\ files = [id \in StorageIds |-> NoData]
  /\ metadata_file = DocAbsent
  /\ metadata = <<>>
  /\ now = StartTime
  /\ restarted = FALSE
  /\ prev = NoCall
  /\ last = NoCall
  /\ lock = 0
  /\ pc = [w \in Workers |-> "idle"]
  /\ job = [w \in Workers |-> NoJob]
  /\ snap = [w \in Workers |-> NoSnap]
  /\ ret = [w \in Workers |-> NoRet]
  /\ key_file = NoKeyFile
  /\ api_keys_file = NoApiKeysFile
  /\ encryption_key = NoKey
  /\ api_keys = NoApiKeys
  /\ cipher = NoCipher
  /\ out = NoOut
  /\ file_paths = <<>>
  /\ validate = TRUE
  /\ futures = <<>>
  /\ successful_files = 0
  /\ cpc = "idle"
  /\ idx = 1
  /\ result = NoResult

\* The kind of I/O step that fails during one call ("none": no fault),
\* for each operation the steps it can reach.
GetFaults == {"none", "exists", "unlink", "read", "save_open", "save_write"}
SetFaults == {"none", "size", "unlink", "write_open", "write", "stat",
              "save_open", "save_write"}
InvalidateFaults == {"none", "exists", "unlink", "save_open", "save_write"}
ClearFaults == {"none", "rmtree", "mkdir", "save_open", "save_write"}

Get(key, fault) ==
  LET r == get(Cur, key, fault, now)
  IN Commit(r.s, [NoCall EXCEPT !.op = "get", !.key = key, !.fault = fault,
                                !.raised = r.raised, !.ok = (r.data # NoData),
                                !.data = r.data])

Set(key, value, extra, fault) ==
  LET r == set(Cur, key, value, extra, fault, now)
  IN Commit(r.s, [NoCall EXCEPT !.op = "set", !.key = key, !.value = value,
                                !.extra = extra, !.fault = fault,
                                !.raised = r.raised, !.ok = r.ret])

Invalidate(key, fault) ==
  LET r == invalidate(Cur, key, fault)
  IN Commit(r.s, [NoCall EXCEPT !.op = "invalidate", !.key = key, !.fault = fault,
                                !.raised = r.raised, !.ok = r.ret])

Clear(fault) ==
  LET r == clear(Cur, fault)
  IN Commit(r.s, [NoCall EXCEPT !.op = "clear", !.fault = fault,
                                !.raised = r.raised, !.ok = r.ret])

\* the process ends and a new CacheManager is constructed over the directory
Restart ==
  /\ Store(init(Cur, "none", now))
  /\ restarted' = TRUE
  /\ UNCHANGED <<now, prev, last, pool, security, converter>>

\* the process dies inside set(key, value) and a new CacheManager is
\* constructed over the directory it leaves
CrashInSet(key, value, point) ==
  /\ Store(init(set_crash(Cur, key, value, point, now), "none", now))
  /\ restarted' = TRUE
  /\ prev' = NoCall
  /\ last' = [NoCall EXCEPT !.op = "crash_set", !.key = key, !.value = value,
                            !.fault = point, !.time = now]
  /\ UNCHANGED <<now, pool, security, converter>>

\* the same inside invalidate(key)
CrashInInvalidate(key, point) ==
  /\ Store(init(invalidate_crash(Cur, key, point), "none", now))
  /\ restarted' = TRUE
  /\ prev' = NoCall
  /\ last' = [NoCall EXCEPT !.op = "crash_invalidate", !.key = key,
                            !.fault = point, !.time = now]
  /\ UNCHANGED <<now, pool, security, converter>>

Tick ==
  /\ now < StartTime + MaxTicks
  /\ now' = now + 1
  /\ UNCHANGED <<cache_dir, files, metadata_file, metadata, restarted, prev, last, pool>>
  /\ UNCHANGED <<security, converter>>

\* Fault-free calls with byte payloads.
Payloads == { BytesOf("x", 600), BytesOf("", 0) }

Next ==
  \/ \E key \in Keys : Get(key, "none")
  \/ \E key \in Keys, value \in Payloads : Set(key, value, NoExtra, "none")
  \/ \E key \in Keys : Invalidate(key, "none")
  \/ Clear("none")
  \/ Restart
  \/ Tick

Spec == Init /\ [][Next]_vars

\* Fault-free calls and processes that die inside a call.
NextCrash ==
  \/ \E key \in Keys : Get(key, "none")
  \/ \E key \in Keys : Set(key, BytesOf("x", 600), NoExtra, "none")
  \/ \E key \in Keys : Invalidate(key, "none")
  \/ Clear("none")
  \/ \E key \in Keys, point \in SetCrashPoints :
       CrashInSet(key, BytesOf("x", 600), point)
  \/ \E key \in Keys, point \in InvalidateCrashPoints : CrashInInvalidate(key, point)
  \/ Restart
  \/ Tick

SpecCrash == Init /\ [][NextCrash]_vars

\* Fault-free calls on one key with every kind of payload and of caller
\* metadata.
NextValues ==
  \/ Get("a", "none")
  \/ \E value \in Values, extra \in Extras : Set("a", value, extra, "none")
  \/ Tick

SpecValues == Init /\ [][NextValues]_vars

\* Calls on one key during which one kind of I/O step fails.
NextFault ==
  \/ \E fault \in GetFaults : Get("a", fault)
  \/ \E fault \in SetFaults : Set("a", BytesOf("x", 600), NoExtra, fault)
  \/ \E fault \in InvalidateFaults : Invalidate("a", fault)
  \/ \E fault \in ClearFaults : Clear(fault)
  \/ Restart
  \/ Tick

SpecFault == Init /\ [][NextFault]_vars

(***************************************************************************)
(* The worker pool: every worker of the ThreadPoolExecutor calls the one   *)
(* shared CacheManager.  A call is a sequence of steps, one per file       *)
(* system or index access, all inside "with self.lock".                    *)
(***************************************************************************)
\* threading.Lock.acquire blocks until the lock is free
LockIgnored == TRUE

LockFree == lock = 0

At(w, loc) == pc[w] = loc

Goto(w, loc) == pc' = [pc EXCEPT ![w] = loc]

Return(w, r) ==
  /\ ret' = [ret EXCEPT ![w] = r]
  /\ Goto(w, "release")

Quiet == UNCHANGED <<now, restarted, prev, last, security, converter>>

Disk == <<cache_dir, files, metadata_file, metadata>>

\* a worker starts a call of the shared instance
Submit(w, op, key) ==
  /\ At(w, "idle")
  /\ Goto(w, "wait")
  /\ job' = [job EXCEPT ![w] = [NoJob EXCEPT !.op = op, !.key = key,
                                  !.value = IF op = "set" THEN BytesOf("x", 600) ELSE NoData]]
  /\ UNCHANGED <<Disk, lock, snap, ret>>
  /\ Quiet

\* with self.lock:
Acquire(w) ==
  /\ At(w, "wait")
  /\ LockFree
  /\ lock' = w
  /\ snap' = [snap EXCEPT ![w] = Cur]
  /\ job' = [job EXCEPT ![w].time = now]
  /\ Goto(w, CASE job[w].op = "get" -> "get_exists"
               [] job[w].op = "set" -> "set_size"
               [] job[w].op = "invalidate" -> "rm_unlink"
               [] OTHER -> "clear_rmtree")
  /\ UNCHANGED <<Disk, ret>>
  /\ Quiet

\* get: if not cache_path.exists(): return None
GetExists(w) ==
  /\ At(w, "get_exists")
  /\ IF Exists(Cur, job[w].key)
       THEN Goto(w, "get_ttl") /\ UNCHANGED ret
       ELSE Return(w, [data |-> NoData, ok |-> FALSE])
  /\ UNCHANGED <<Disk, lock, job, snap>>
  /\ Quiet

\* get: the TTL check, reading time.time()
GetTtl(w) ==
  /\ At(w, "get_ttl")
  /\ job' = [job EXCEPT ![w].time = now]
  /\ IF Expired(IF Has(metadata, job[w].key) THEN Lookup(metadata, job[w].key) ELSE <<>>, now)
       THEN Goto(w, "rm_unlink")
       ELSE Goto(w, "get_read")
  /\ UNCHANGED <<Disk, lock, snap, ret>>
  /\ Quiet

\* get: return f.read()
GetRead(w) ==
  /\ At(w, "get_read")
  /\ Return(w, [data |-> files[hashed_key(job[w].key)], ok |-> TRUE])
  /\ UNCHANGED <<Disk, lock, job, snap>>
  /\ Quiet

\* _remove_item: if cache_path.exists(): cache_path.unlink()
RmUnlink(w) ==
  /\ At(w, "rm_unlink")
  /\ files' = [files EXCEPT ![hashed_key(job[w].key)] = NoData]
  /\ Goto(w, "rm_pop")
  /\ UNCHANGED <<cache_dir, metadata_file, metadata, lock, job, snap, ret>>
  /\ Quiet

\* _remove_item: self.metadata.pop(key, None)
RmPop(w) ==
  /\ At(w, "rm_pop")
  /\ metadata' = Pop(metadata, job[w].key)
  /\ Goto(w, "rm_save")
  /\ UNCHANGED <<cache_dir, files, metadata_file, lock, job, snap, ret>>
  /\ Quiet

\* _remove_item: self._save_metadata(); get returns None, invalidate True
RmSave(w) ==
  /\ At(w, "rm_save")
  /\ Store(save_metadata(Cur, "none").s)
  /\ Return(w, [data |-> NoData, ok |-> job[w].op = "invalidate"])
  /\ UNCHANGED <<lock, job, snap>>
  /\ Quiet

\* set: the size check and, above the ceiling, the eviction sweep
SetSize(w) ==
  /\ At(w, "set_size")
  /\ Store(IF get_cache_size(Cur) > max_size_bytes
             THEN cleanup_old_items(Cur, "none") ELSE Cur)
  /\ Goto(w, "set_open")
  /\ UNCHANGED <<lock, job, snap, ret>>
  /\ Quiet

\* set: open(cache_path, 'wb') creates or truncates the blob
SetOpen(w) ==
  /\ At(w, "set_open")
  /\ cache_dir
  /\ files' = [files EXCEPT ![hashed_key(job[w].key)] = BytesOf("", 0)]
  /\ Goto(w, "set_write")
  /\ UNCHANGED <<cache_dir, metadata_file, metadata, lock, job, snap, ret>>
  /\ Quiet

\* set: f.write(...)
SetWrite(w) ==
  /\ At(w, "set_write")
  /\ files' = [files EXCEPT ![hashed_key(job[w].key)] = Encode(job[w].value)]
  /\ Goto(w, "set_index")
  /\ UNCHANGED <<cache_dir, metadata_file, metadata, lock, job, snap, ret>>
  /\ Quiet

\* set: self.metadata[key] = {'timestamp': time.time(), 'size': st_size}
SetIndex(w) ==
  /\ At(w, "set_index")
  /\ job' = [job EXCEPT ![w].time = now]
  /\ metadata' = Put(metadata, job[w].key,
                     Entry(now, files[hashed_key(job[w].key)].len, NoExtra))
  /\ Goto(w, "set_save")
  /\ UNCHANGED <<cache_dir, files, metadata_file, lock, snap, ret>>
  /\ Quiet

\* set: self._save_metadata(); return True
SetSave(w) ==
  /\ At(w, "set_save")
  /\ Store(save_metadata(Cur, "none").s)
  /\ Return(w, [data |-> NoData, ok |-> TRUE])
  /\ UNCHANGED <<lock, job, snap>>
  /\ Quiet

\* clear: shutil.rmtree(self.cache_dir)
ClearRmtree(w) ==
  /\ At(w, "clear_rmtree")
  /\ cache_dir
  /\ cache_dir' = FALSE
  /\ files' = [id \in StorageIds |-> NoData]
  /\ metadata_file' = DocAbsent
  /\ Goto(w, "clear_mkdir")
  /\ UNCHANGED <<metadata, lock, job, snap, ret>>
  /\ Quiet

\* clear: self.cache_dir.mkdir(parents=True)
ClearMkdir(w) ==
  /\ At(w, "clear_mkdir")
  /\ cache_dir' = TRUE
  /\ Goto(w, "clear_reset")
  /\ UNCHANGED <<files, metadata_file, metadata, lock, job, snap, ret>>
  /\ Quiet

\* clear: self.metadata = {}
ClearReset(w) ==
  /\ At(w, "clear_reset")
  /\ metadata' = <<>>
  /\ Goto(w, "clear_save")
  /\ UNCHANGED <<cache_dir, files, metadata_file, lock, job, snap, ret>>
  /\ Quiet

\* clear: self._save_metadata(); return True
ClearSave(w) ==
  /\ At(w, "clear_save")
  /\ Store(save_metadata(Cur, "none").s)
  /\ Return(w, [data |-> NoData, ok |-> TRUE])
  /\ UNCHANGED <<lock, job, snap>>
  /\ Quiet

\* leaving the with block; the worker is free for its next call
Release(w) ==
  /\ At(w, "release")
  /\ lock' = 0
  /\ Goto(w, "idle")
  /\ job' = [job EXCEPT ![w] = NoJob]
  /\ snap' = [snap EXCEPT ![w] = NoSnap]
  /\ ret' = [ret EXCEPT ![w] = NoRet]
  /\ UNCHANGED Disk
  /\ Quiet

\* an exception that leaves the call while the lock stays taken
RaiseHolding(w) ==
  /\ pc[w] \in {"get_exists", "get_read", "rm_unlink", "set_size", "set_open",
                "set_write", "set_index", "clear_rmtree", "clear_mkdir"}
  /\ ret' = [ret EXCEPT ![w] = NoRet]
  /\ Goto(w, "idle")
  /\ job' = [job EXCEPT ![w] = NoJob]
  /\ snap' = [snap EXCEPT ![w] = NoSnap]
  /\ UNCHANGED <<Disk, lock>>
  /\ Quiet

\* the file system call of the step raises: the except clause of get, set,
\* clear or _remove_item logs it and the call returns None or False (open
\* and rmtree always raise when the directory is missing)
Raise(w) ==
  /\ pc[w] \in {"get_exists", "get_read", "rm_unlink", "set_size", "set_open",
                "set_write", "set_index", "clear_rmtree", "clear_mkdir"}
  /\ Return(w, [data |-> NoData, ok |-> FALSE])
  /\ UNCHANGED <<Disk, lock, job, snap>>
  /\ Quiet

\* _save_metadata fails: it returns False, which no caller looks at, and
\* the call returns what it returns after a successful save
SaveFails(w) ==
  /\ pc[w] \in {"rm_save", "set_save", "clear_save"}
  /\ \E fault \in {"save_open", "save_write"} : Store(save_metadata(Cur, fault).s)
  /\ Return(w, [data |-> NoData, ok |-> job[w].op # "get"])
  /\ UNCHANGED <<lock, job, snap>>
  /\ Quiet

PoolOps == {"get", "set", "invalidate", "clear"}

NextPool ==
  \/ \E w \in Workers, op \in PoolOps, key \in Keys : Submit(w, op, key)
  \/ \E w \in Workers : Acquire(w)
  \/ \E w \in Workers : GetExists(w)
  \/ \E w \in Workers : GetTtl(w)
  \/ \E w \in Workers : GetRead(w)
  \/ \E w \in Workers : RmUnlink(w)
  \/ \E w \in Workers : RmPop(w)
  \/ \E w \in Workers : RmSave(w)
  \/ \E w \in Workers : SetSize(w)
  \/ \E w \in Workers : SetOpen(w)
  \/ \E w \in Workers : SetWrite(w)
  \/ \E w \in Workers : SetIndex(w)
  \/ \E w \in Workers : SetSave(w)
  \/ \E w \in Workers : ClearRmtree(w)
  \/ \E w \in Workers : ClearMkdir(w)
  \/ \E w \in Workers : ClearReset(w)
  \/ \E w \in Workers : ClearSave(w)
  \/ \E w \in Workers : Release(w)
  \/ Tick

SpecPool == Init /\ [][NextPool]_vars

\* the step worker w takes next inside its call
Step(w) ==
  \/ GetExists(w) \/ GetTtl(w) \/ GetRead(w)
  \/ RmUnlink(w) \/ RmPop(w) \/ RmSave(w)
  \/ SetSize(w) \/ SetOpen(w) \/ SetWrite(w) \/ SetIndex(w) \/ SetSave(w)
  \/ ClearRmtree(w) \/ ClearMkdir(w) \/ ClearReset(w) \/ ClearSave(w)
  \/ Raise(w) \/ SaveFails(w)
  \/ Release(w)

\* The pool making calls on one key, in which any file system step may
\* fail.
NextPoolFault ==
  \/ \E w \in Workers, op \in PoolOps : Submit(w, op, "a")
  \/ \E w \in Workers : Acquire(w)
  \/ \E w \in Workers : GetExists(w) \/ GetTtl(w) \/ GetRead(w)
  \/ \E w \in Workers : RmUnlink(w) \/ RmPop(w) \/ RmSave(w)
  \/ \E w \in Workers : SetSize(w) \/ SetOpen(w) \/ SetWrite(w) \/ SetIndex(w) \/ SetSave(w)
  \/ \E w \in Workers : ClearRmtree(w) \/ ClearMkdir(w) \/ ClearReset(w) \/ ClearSave(w)
  \/ \E w \in Workers : Raise(w)
  \/ \E w \in Workers : SaveFails(w)
  \/ \E w \in Workers : Release(w)

\* A thread that can take its next step is scheduled in the end, and a
\* thread that waits for the lock gets it when the lock is freed again and
\* again.
SpecPoolFair ==
  /\ Init /\ [][NextPoolFault]_vars
  /\ \A w \in Workers : WF_vars(Step(w)) /\ SF_vars(Acquire(w))

(***************************************************************************)
(* The calls of the instance.                                              *)
(***************************************************************************)
\* SecurityManager(): key first, then the persisted api keys
Construct ==
  \E r \in KeyMaterial :
    LET k == load_or_create_key(key_file, r)
    IN /\ key_file' = k.file
       /\ encryption_key' = k.key
       /\ api_keys' = load_api_keys(api_keys_file, k.key)
       /\ cipher' = [cipher EXCEPT !.later = (cipher.token.kind # "none")]
       /\ out' = [loaded |-> key_file.exists, op |-> "construct", raised |-> FALSE]
       /\ UNCHANGED <<api_keys_file, cachestate, converter>>

GatePayloads == { BytesOf("x", 600), BytesOf("", 0), [body |-> "s", kind |-> "str", len |-> 300] }

\* the ciphertext handed to a decryption: the one encrypt returned, a copy
\* with a byte changed, a prefix of it, a token made under another key, or
\* bytes that never were a token
Variants == {"intact", "tampered", "truncated", "foreign", "junk"}

Variant(token, how, text) ==
  CASE how = "intact" -> token
    [] how = "tampered" -> [token EXCEPT !.state = "tampered"]
    [] how = "truncated" -> [token EXCEPT !.state = "truncated"]
    [] how = "foreign" ->
         [token EXCEPT !.key = generate_key(CHOOSE r \in KeyMaterial :
                                              generate_key(r) # token.key)]
    [] OTHER -> IF text THEN [body |-> "junk", kind |-> "str", len |-> 4]
                ELSE BytesOf("junk", 4)

EncryptData(data) ==
  /\ encryption_key # NoKey
  /\ LET r == encrypt_data(encryption_key, data)
     IN /\ cipher' = IF r.exc THEN cipher
                     ELSE [later |-> FALSE, payload |-> data, token |-> r.data]
        /\ out' = [arg |-> data, op |-> "encrypt_data", raised |-> r.exc]
  /\ UNCHANGED <<key_file, api_keys_file, encryption_key, api_keys, cachestate, converter>>

Encrypt(data) ==
  /\ encryption_key # NoKey
  /\ LET r == encrypt(encryption_key, data)
     IN /\ cipher' = IF r.exc THEN cipher
                     ELSE [later |-> FALSE, payload |-> data, token |-> r.data]
        /\ out' = [arg |-> data, op |-> "encrypt", raised |-> r.exc]
  /\ UNCHANGED <<key_file, api_keys_file, encryption_key, api_keys, cachestate, converter>>

DecryptData(how) ==
  /\ encryption_key # NoKey
  /\ cipher.token.kind = "token"
  /\ LET arg == Variant(cipher.token, how, FALSE)
         r == decrypt_data(encryption_key, arg)
     IN out' = [arg |-> arg, data |-> r.data, later |-> cipher.later,
                op |-> "decrypt_data", payload |-> cipher.payload,
                raised |-> r.exc, variant |-> how]
  /\ UNCHANGED <<key_file, api_keys_file, encryption_key, api_keys, cipher, cachestate, converter>>

Decrypt(how) ==
  /\ encryption_key # NoKey
  /\ cipher.token.kind = "token_str"
  /\ LET arg == Variant(cipher.token, how, TRUE)
         r == decrypt(encryption_key, arg)
     IN out' = [arg |-> arg, data |-> r.data, later |-> cipher.later,
                op |-> "decrypt", payload |-> cipher.payload,
                raised |-> r.exc, variant |-> how]
  /\ UNCHANGED <<key_file, api_keys_file, encryption_key, api_keys, cipher, cachestate, converter>>

AddApiKey(service, secret) ==
  /\ encryption_key # NoKey
  /\ LET r == add_api_key(api_keys, encryption_key, service, secret)
     IN /\ api_keys' = r.keys
        /\ api_keys_file' = r.file
  /\ out' = [arg |-> secret, op |-> "add_api_key", raised |-> FALSE]
  /\ UNCHANGED <<key_file, encryption_key, cipher, cachestate, converter>>

GetApiKey(service) ==
  /\ encryption_key # NoKey
  /\ LET r == get_api_key(api_keys, encryption_key, service)
     IN out' = [data |-> r.data, op |-> "get_api_key", raised |-> r.exc]
  /\ UNCHANGED <<key_file, api_keys_file, encryption_key, api_keys, cipher, cachestate, converter>>

\* the file api_keys.json is damaged on disk while no instance writes it
Damage(how) ==
  /\ api_keys_file.exists
  /\ api_keys_file.text.state = "intact"
  /\ api_keys_file' = [api_keys_file EXCEPT !.text = Variant(api_keys_file.text, how, TRUE)]
  /\ out' = [op |-> "damage"]
  /\ UNCHANGED <<key_file, encryption_key, api_keys, cipher, cachestate, converter>>

NextVault ==
  \/ Construct
  \/ \E data \in GatePayloads : EncryptData(data)
  \/ \E data \in GatePayloads : Encrypt(data)
  \/ \E how \in Variants : DecryptData(how)
  \/ \E how \in Variants : Decrypt(how)
  \/ \E service \in Services : AddApiKey(service, [body |-> "sk", kind |-> "str", len |-> 2])
  \/ \E service \in Services : GetApiKey(service)
  \/ \E how \in {"tampered", "truncated"} : Damage(how)

SpecVault == Init /\ [][NextVault]_vars

(***************************************************************************)
(* Validation calls of a constructed SecurityManager.                      *)
(***************************************************************************)
Files ==
  [content : { <<"%PDF">>, <<"%PDF", "<script">>, <<"eval(">>, <<"<SCRIPT">> },
   exists : {TRUE},
   mime : {"application/pdf", "text/html", "image/png"},
   path : {"a"},
   size : {1024, max_file_size, max_file_size + 1}]
  \cup {[content |-> <<>>, exists |-> FALSE, mime |-> "", path |-> "a", size |-> 0]}

FileFaults == {"none", "stat", "magic", "read"}

Urls ==
  [host : {"ok.org", "evil.com"},
   port : {"", "8080"},
   scheme : {"http"},
   userinfo : {"", "bob"}]
  \cup [host : {"ok.org", "evil.com"}, port : {""}, scheme : {"https", "ftp"},
        userinfo : {""}]

\* what the network answers to the probe: the redirects followed, whether
\* the connection fails, and the status and headers of the final response
Nets ==
  [content_length : {"", "10485760", "10485761", "abc"},
   content_type : {"application/pdf", "text/html; charset=utf-8", "image/png"},
   error : {FALSE},
   hops : {0, 1},
   status : {200, 404}]
  \cup {[content_length |-> "", content_type |-> "", error |-> TRUE, hops |-> 0,
          status |-> 0]}

ValidateFile(file, fault) ==
  /\ encryption_key # NoKey
  /\ LET r == validate_file(file, fault)
     IN out' = [arg |-> file, fault |-> fault, op |-> "validate_file",
                ret |-> r.ret, steps |-> r.steps]
  /\ UNCHANGED <<key_file, api_keys_file, encryption_key, api_keys, cipher, cachestate, converter>>

ValidateUrl(url, net) ==
  /\ encryption_key # NoKey
  /\ LET r == validate_url(url, net)
     IN out' = [arg |-> url, net |-> net, op |-> "validate_url",
                requests |-> r.requests, ret |-> r.ret, steps |-> r.steps]
  /\ UNCHANGED <<key_file, api_keys_file, encryption_key, api_keys, cipher, cachestate, converter>>

NextGate ==
  \/ Construct
  \/ \E file \in Files, fault \in FileFaults : ValidateFile(file, fault)
  \/ \E url \in Urls, net \in Nets : ValidateUrl(url, net)

SpecGate == Init /\ [][NextGate]_vars

(***************************************************************************)
(* convert_files: the main thread validates and submits, the executor's    *)
(* threads run the jobs, the main thread collects the results.             *)
(***************************************************************************)
BatchFiles ==
  { [content |-> <<"%PDF">>, exists |-> TRUE, mime |-> "application/pdf",
     path |-> "a", size |-> 1024],
    [content |-> <<"%PDF", "<script">>, exists |-> TRUE, mime |-> "application/pdf",
     path |-> "b", size |-> 1024],
    [content |-> <<>>, exists |-> FALSE, mime |-> "", path |-> "b", size |-> 0] }

Batches == UNION { [1..n -> BatchFiles] : n \in 0..MaxFiles }

\* convert_files(file_paths, validate=v) is called
ConvertFiles(paths, v) ==
  /\ cpc = "idle"
  /\ file_paths' = paths
  /\ validate' = v
  /\ futures' = <<>>
  /\ successful_files' = 0
  /\ idx' = 1
  /\ cpc' = "submit"
  /\ result' = NoResult
  /\ UNCHANGED <<cachestate, security>>

\* the submit loop: a file that fails validation is passed over
Reject ==
  /\ cpc = "submit"
  /\ idx <= Len(file_paths)
  /\ Rejected(file_paths[idx], validate)
  /\ idx' = idx + 1
  /\ UNCHANGED <<file_paths, validate, futures, successful_files, cpc, result>>
  /\ UNCHANGED <<cachestate, security>>

\* the submit loop: executor.submit(self._convert_single_file, file_path, ...)
SubmitJob ==
  /\ cpc = "submit"
  /\ idx <= Len(file_paths)
  /\ ~Rejected(file_paths[idx], validate)
  /\ futures' = Append(futures, [file |-> idx, result |-> FALSE, state |-> "queued",
                                 steps |-> IF validate THEN <<"validate">> ELSE <<>>])
  /\ idx' = idx + 1
  /\ UNCHANGED <<file_paths, validate, successful_files, cpc, result>>
  /\ UNCHANGED <<cachestate, security>>

\* the submit loop ends and the result loop begins
Submitted ==
  /\ cpc = "submit"
  /\ idx > Len(file_paths)
  /\ idx' = 1
  /\ cpc' = "collect"
  /\ UNCHANGED <<file_paths, validate, futures, successful_files, result>>
  /\ UNCHANGED <<cachestate, security>>

\* a free thread of the executor takes the oldest queued job
StartJob(j) ==
  /\ j \in DOMAIN futures
  /\ futures[j].state = "queued"
  /\ \A k \in 1..(j - 1) : futures[k].state # "queued"
  /\ Cardinality({ k \in DOMAIN futures : futures[k].state = "running" }) < MaxWorkers
  /\ futures' = [futures EXCEPT ![j].state = "running"]
  /\ UNCHANGED <<file_paths, validate, successful_files, cpc, idx, result>>
  /\ UNCHANGED <<cachestate, security>>

\* the job runs _convert_single_file to its end
FinishJob(j) ==
  /\ j \in DOMAIN futures
  /\ futures[j].state = "running"
  /\ LET r == convert_single_file(Cur, file_paths[futures[j].file], now)
     IN /\ Store(r.s)
        /\ futures' = [futures EXCEPT ![j].state = "done", ![j].result = r.ret,
                                      ![j].steps = @ \o r.steps]
  /\ UNCHANGED <<file_paths, validate, successful_files, cpc, idx, result>>
  /\ UNCHANGED <<now, restarted, prev, last, pool, security>>

\* the result loop: future.result() waits for the job
Collect ==
  /\ cpc = "collect"
  /\ idx <= Len(futures)
  /\ futures[idx].state = "done"
  /\ successful_files' = successful_files + (IF futures[idx].result THEN 1 ELSE 0)
  /\ idx' = idx + 1
  /\ UNCHANGED <<file_paths, validate, futures, cpc, result>>
  /\ UNCHANGED <<cachestate, security>>

\* leaving the with block waits for every job (shutdown(wait=True)), then
\* convert_files returns
ReturnFromConvert ==
  /\ cpc = "collect"
  /\ idx > Len(futures)
  /\ \A j \in DOMAIN futures : futures[j].state = "done"
  /\ result' = [raised |-> FALSE,
                ret |-> convert_files_return(Len(file_paths), successful_files),
                returned |-> TRUE]
  /\ cpc' = "idle"
  /\ UNCHANGED <<file_paths, validate, futures, successful_files, idx>>
  /\ UNCHANGED <<cachestate, security>>

NextBatch ==
  \/ \E paths \in Batches, v \in BOOLEAN : ConvertFiles(paths, v)
  \/ Reject
  \/ SubmitJob
  \/ Submitted
  \/ \E j \in 1..MaxFiles : StartJob(j)
  \/ \E j \in 1..MaxFiles : FinishJob(j)
  \/ Collect
  \/ ReturnFromConvert

SpecBatch == Init /\ [][NextBatch]_vars

\* the operating system lets every thread that can run take its next step
SpecBatchFair ==
  /\ SpecBatch
  /\ WF_vars(Reject \/ SubmitJob \/ Submitted \/ Collect \/ ReturnFromConvert)
  /\ \A j \in 1..MaxFiles : WF_vars(StartJob(j)) /\ WF_vars(FinishJob(j))

\* Batches over a cache directory that holds what set(cache_key,
\* output_paths) stores for a list of image paths.
NextPipeline ==
  \/ \E key \in Keys : Set(key, [body |-> "p", kind |-> "list", len |-> 13], NoExtra, "none")
  \/ NextBatch

SpecPipeline == Init /\ [][NextPipeline]_vars

(***************************************************************************)
(* Calls around the ceiling: payloads whose sizes add up to just below,    *)
(* to exactly and to above max_size_bytes, and processes that die after    *)
(* a blob was unlinked or written and before the index was persisted.      *)
(***************************************************************************)
EvictPayloads == { BytesOf("x", 300), BytesOf("x", 700), BytesOf("x", 1100) }

NextEvict ==
  \/ \E key \in Keys : Get(key, "none")
  \/ \E key \in Keys, value \in EvictPayloads : Set(key, value, NoExtra, "none")
  \/ \E key \in Keys : CrashInInvalidate(key, "unlink")
  \/ \E key \in Keys : CrashInSet(key, BytesOf("x", 700), "stat")
  \/ Tick

SpecEvict == Init /\ [][NextEvict]_vars

\* Fault-free calls whose caller metadata may carry a field named size.
SizeExtras == { NoExtra, [size |-> 5000] }
SizePayloads == { BytesOf("x", 300), BytesOf("x", 1100) }

NextSize ==
  \/ \E key \in Keys : Get(key, "none")
  \/ \E key \in Keys, value \in SizePayloads, extra \in SizeExtras :
       Set(key, value, extra, "none")
  \/ \E key \in Keys : Invalidate(key, "none")
  \/ Clear("none")
  \/ Restart
  \/ Tick

SpecSize == Init /\ [][NextSize]_vars

TypeOK ==
  /\ cache_dir \in BOOLEAN
  /\ now \in StartTime..(StartTime + MaxTicks)
  /\ restarted \in BOOLEAN
  /\ ~last.raised

(***************************************************************************)
(* Properties.                                                             *)
(***************************************************************************)
\* blob bytes stored in the directory
StoredBytes(s) == SumFiles(s.files, StorageIds)

\* the last two calls were set(prev.key, ..) and then `op` on the same key
SetThen(op) ==
  /\ prev.op = "set" /\ prev.ok /\ prev.fault = "none"
  /\ last.op = op /\ last.fault = "none"
  /\ last.key = prev.key

\* C2: starting from an empty cache, after set(a, x) and set(b, y) with
\* size(x) + size(y) above the ceiling, the older entry a has been evicted
\* and the stored total is at most 80% of the ceiling.
C2_EvictionOnOverflow ==
  ( /\ prev.op = "set" /\ prev.ok /\ prev.fresh
    /\ last.op = "set" /\ last.ok /\ last.key # prev.key
    /\ ~restarted
    /\ Encode(prev.value).len + Encode(last.value).len > max_size_bytes )
  => /\ ~Has(metadata, prev.key)
     /\ ~Exists(Cur, prev.key)
     /\ Has(metadata, last.key)
     /\ StoredBytes(Cur) * 10 <= max_size_bytes * 8

\* C3: a get that directly follows set(k, v) made at t0 is a hit at every
\* time t with t - t0 <= ttl_seconds (the boundary included) and a miss at
\* every later time.
C3_TtlBoundary ==
  (SetThen("get") /\ prev.extra = NoExtra)
  => /\ (last.time - prev.time <= ttl_seconds => last.ok /\ last.data = Encode(prev.value))
     /\ (last.time - prev.time > ttl_seconds => ~last.ok)

C3_Witness ==
  /\ SetThen("get") /\ prev.extra = NoExtra
  /\ last.time - prev.time = ttl_seconds
  /\ last.ok

\* C9: a get that returns a hit leaves the index (timestamps, sizes, extra
\* fields, order), the persisted document and every blob unchanged.
C9_GetNeverRefreshes ==
  [][ ((\E key \in Keys : Get(key, "none")) /\ last'.ok)
        => UNCHANGED <<metadata, metadata_file, files, cache_dir>> ]_vars

C9_Witness ==
  /\ last.op = "get" /\ last.ok
  /\ Has(metadata, last.key)
  /\ Lookup(metadata, last.key).timestamp < last.time
  /\ Len(metadata) = 2

\* C1: when get(k) directly follows a successful set(k, v), before TTL
\* expiry and without I/O fault, it returns exactly v, for every kind of
\* payload set() accepts.
C1_RoundTrip ==
  (SetThen("get") /\ prev.extra = NoExtra /\ last.time - prev.time <= ttl_seconds)
  => last.ok /\ last.data = prev.value

\* C5: get never raises, and a get whose existence check or blob read
\* fails returns a miss.
C5_GetNeverRaises ==
  last.op = "get"
  => /\ ~last.raised
     /\ (last.fault \in {"exists", "read"} => ~last.ok /\ last.data = NoData)

\* a live entry whose read failed
C5_Witness ==
  /\ last.op = "get" /\ last.fault = "read" /\ ~last.ok
  /\ ~restarted
  /\ Exists(Cur, last.key)
  /\ Has(metadata, last.key)
  /\ ~Expired(Lookup(metadata, last.key), last.time)

\* C6: set never raises and returns success only if the blob holds the new
\* payload and the persisted document holds the new entry.
C6_SetReportsFailure ==
  (last.op = "set" /\ ~restarted)
  => /\ ~last.raised
     /\ last.ok =>
          /\ files[hashed_key(last.key)] = Encode(last.value)
          /\ Has(metadata, last.key)
          /\ metadata_file = DocOf(metadata)

\* C7: after invalidate(k) returns true, k has no blob, no entry in the
\* index or in the persisted document and get(k) is a miss; a further
\* invalidate(k) returns true and changes nothing.
C7_InvalidateComplete ==
  (last.op = "invalidate" /\ last.ok /\ ~restarted)
  => /\ ~Exists(Cur, last.key)
     /\ ~Has(metadata, last.key)
     /\ ~Has(load_metadata(Cur, "none"), last.key)
     /\ get(Cur, last.key, "none", now).data = NoData
     /\ LET again == invalidate(Cur, last.key, "none")
        IN /\ again.ret
           /\ again.s.metadata = metadata
           /\ again.s.files = files
           /\ load_metadata(again.s, "none") = load_metadata(Cur, "none")

\* C8: after clear() returns success the index is empty, the persisted
\* document holds no entry, no blob exists (indexed or not), the directory
\* exists and every get is a miss; a second clear() succeeds and leaves
\* that state as it is.
C8_ClearComplete ==
  (last.op = "clear" /\ last.ok)
  => /\ metadata = <<>>
     /\ load_metadata(Cur, "none") = <<>>
     /\ last.fault = "none" => metadata_file = DocOf(<<>>)
     /\ \A id \in StorageIds : files[id] = NoData
     /\ cache_dir
     /\ \A key \in Keys : get(Cur, key, "none", now).data = NoData
     /\ LET again == clear(Cur, "none")
        IN /\ again.ret /\ ~again.raised
           /\ again.s.metadata = <<>>
           /\ again.s.files = files
           /\ again.s.dir
           /\ load_metadata(again.s, "none") = <<>>

\* a successful clear of a cache that was not empty
C8_Witness ==
  /\ last.op = "clear" /\ last.ok /\ ~last.fresh
  /\ metadata = <<>>
  /\ \A id \in StorageIds : files[id] = NoData

\* C10: if set(k, v) succeeded and a new instance is constructed over the
\* directory before the TTL has elapsed, get(k) on the new instance returns
\* v and the entry keeps its createdAt.
C10_SurvivesRestart ==
  ( /\ prev.op = "set" /\ prev.ok /\ prev.extra = NoExtra
    /\ last.op = "get" /\ last.fault = "none" /\ last.key = prev.key
    /\ last.restarted
    /\ last.time - prev.time <= ttl_seconds
    /\ ~restarted )
  => /\ last.ok /\ last.data = prev.value
     /\ Has(metadata, last.key)
     /\ Lookup(metadata, last.key).timestamp = prev.time

\* the call of worker w, made in one piece on the state it found on entry
Serial(w) ==
  LET c == job[w]
  IN CASE c.op = "get" ->
            LET r == get(snap[w], c.key, "none", c.time)
            IN [ret |-> [data |-> r.data, ok |-> r.data # NoData], s |-> r.s]
       [] c.op = "set" ->
            LET r == set(snap[w], c.key, c.value, NoExtra, "none", c.time)
            IN [ret |-> [data |-> NoData, ok |-> r.ret], s |-> r.s]
       [] c.op = "invalidate" ->
            LET r == invalidate(snap[w], c.key, "none")
            IN [ret |-> [data |-> NoData, ok |-> r.ret], s |-> r.s]
       [] OTHER ->
            LET r == clear(snap[w], "none")
            IN [ret |-> [data |-> NoData, ok |-> r.ret], s |-> r.s]

InCall(w) == pc[w] \notin {"idle", "wait"}

\* C4: at most one worker is inside a call at any time; when a call is
\* about to return, its result and the directory and index equal those of
\* the whole call made on the state it found when it took the lock; a get
\* returns a miss or a completely written blob.
C4_Linearizable ==
  /\ \A v, w \in Workers : InCall(v) /\ InCall(w) => v = w
  /\ \A w \in Workers : InCall(w) => lock = w
  /\ \A w \in Workers :
       At(w, "release") =>
         /\ ret[w] = Serial(w).ret
         /\ Cur = Serial(w).s
         /\ job[w].op = "get" => ret[w].data \in {NoData, BytesOf("x", 600)}

\* a get of the key waits while a set of it has truncated the blob
C4_Witness ==
  \E v, w \in Workers :
    /\ At(v, "set_write") /\ job[v].key = "a"
    /\ At(w, "wait") /\ job[w].op = "get" /\ job[w].key = "a"
    /\ files[hashed_key("a")] = BytesOf("", 0)

\* no blob and no persisted document in the directory
EmptyDir == metadata_file = DocAbsent /\ \A id \in StorageIds : files[id] = NoData

\* C11: a get of a key that has no blob and no index entry returns a miss,
\* does not raise and leaves the directory (blobs, persisted document) and
\* the index as they are; over an empty directory neither the construction
\* nor the get creates a file.
C11_MissHasNoEffect ==
  [][ /\ \A key \in Keys :
          (Get(key, "none") /\ ~Exists(Cur, key) /\ ~Has(metadata, key))
            => /\ ~last'.ok /\ ~last'.raised /\ last'.data = NoData
               /\ UNCHANGED <<cache_dir, files, metadata_file, metadata>>
      /\ (Restart /\ EmptyDir)
            => /\ UNCHANGED <<files, metadata_file>>
               /\ metadata' = <<>> ]_vars

\* a miss on an instance constructed over an empty directory
C11_Witness ==
  /\ last.op = "get" /\ ~last.ok /\ last.fault = "none"
  /\ last.restarted /\ last.fresh
  /\ EmptyDir
  /\ metadata = <<>>

\* C12: without I/O fault, whenever the lock is free every key of the index
\* has its blob file on disk.
C12_IndexedBlobExists ==
  lock = 0 => \A key \in Keys : Has(metadata, key) => Exists(Cur, key)

\* one entry was removed and the entry that stays has its blob
C12_Witness ==
  /\ last.op = "invalidate" /\ last.ok
  /\ Len(metadata) = 1
  /\ ~Exists(Cur, last.key)
  /\ \E key \in Keys : Has(metadata, key) /\ Exists(Cur, key)

\* a call that changed the index or the directory
Mutating ==
  /\ \/ \E key \in Keys : Get(key, "none")
     \/ \E key \in Keys : Set(key, BytesOf("x", 600), NoExtra, "none")
     \/ \E key \in Keys : Invalidate(key, "none")
     \/ Clear("none")
     \/ Restart
  /\ <<metadata, metadata_file, files>>' # <<metadata, metadata_file, files>>

\* the document a dying call left holds the whole index of before or of
\* after the call
Atomic(left, before, after) ==
  /\ left.doc # DocCorrupt
  /\ load_metadata(left, "none") \in {before, after}

\* C13: after every fault-free mutating operation the persisted document
\* equals the in-memory index, and the document a process leaves when it
\* dies inside set or invalidate holds the complete index of before or of
\* after that call, never a truncated or partial one.
C13_MirroredAtomically ==
  [][ /\ Mutating => metadata_file' = DocOf(metadata')
      /\ \A key \in Keys, point \in SetCrashPoints :
           CrashInSet(key, BytesOf("x", 600), point)
             => Atomic(set_crash(Cur, key, BytesOf("x", 600), point, now), metadata,
                       set(Cur, key, BytesOf("x", 600), NoExtra, "none", now).s.metadata)
      /\ \A key \in Keys, point \in InvalidateCrashPoints :
           CrashInInvalidate(key, point)
             => Atomic(invalidate_crash(Cur, key, point), metadata,
                       invalidate(Cur, key, "none").s.metadata) ]_vars

\* C14: a decryption of anything but an untampered ciphertext made under
\* the installation's key raises and returns no bytes, and a construction
\* that finds an api_keys file it cannot decrypt raises instead of going
\* on with an empty dict.
C14_CryptoFaultsExplicit ==
  /\ (out.op \in {"decrypt", "decrypt_data"} /\ out.variant # "intact")
       => out.raised /\ out.data = NoData
  /\ ( /\ out.op = "construct"
       /\ api_keys_file.exists
       /\ decrypt(encryption_key, api_keys_file.text).exc )
       => out.raised

\* C15: decrypting what encrypt returned gives back the payload, bytes for
\* encrypt_data/decrypt_data and text for encrypt/decrypt, on the instance
\* that encrypted and on one constructed later over the same directory.
C15_EncryptionRoundTrip ==
  /\ (out.op = "encrypt_data" /\ out.arg.kind = "bytes") => ~out.raised
  /\ (out.op = "encrypt" /\ out.arg.kind = "str") => ~out.raised
  /\ (out.op \in {"decrypt", "decrypt_data"} /\ out.variant = "intact")
       => ~out.raised /\ out.data = out.payload

\* text decrypted by an instance constructed after the encryption
C15_Witness ==
  /\ out.op = "decrypt" /\ out.variant = "intact" /\ out.later
  /\ out.payload.kind = "str"
  /\ out.data = out.payload

\* C16: a construction leaves a key file behind, uses the key that file
\* encodes and, when an earlier instance existed, the key that instance
\* used; no step changes a key file that exists.
C16_OneImmutableKey ==
  [][ /\ key_file.exists => key_file' = key_file
      /\ out'.op = "construct"
           => /\ key_file'.exists
              /\ encryption_key' = urlsafe_b64decode(key_file'.bytes)
              /\ encryption_key # NoKey => encryption_key' = encryption_key ]_vars

\* a later construction loaded the key under which an earlier instance
\* encrypted
C16_Witness ==
  /\ out.op = "construct" /\ out.loaded
  /\ cipher.later
  /\ cipher.token.key = encryption_key
  /\ key_file.bytes = urlsafe_b64encode(encryption_key)

\* the first check of validate_file that fails for the file (5: none)
FirstFailing(file) ==
  IF ~file.exists THEN 1
  ELSE IF file.size > max_file_size THEN 2
  ELSE IF file.mime \notin allowed_mime_types THEN 3
  ELSE IF contains_malicious_content(file, "none") THEN 4
  ELSE 5

\* C17: a URL whose scheme is not http(s) or whose domain is blocklisted
\* is rejected without a network request; the scheme check and the
\* blocklist check come before the probe; no call sends more than one
\* request.
C17_ChecksBeforeProbe ==
  out.op = "validate_url"
  => /\ (out.arg.scheme \notin {"http", "https"} \/ out.arg.host \in blocked_domains)
          => ~out.ret /\ out.requests = 0
     /\ out.requests > 0 => SubSeq(out.steps, 1, 3) = <<"scheme", "blocklist", "head">>
     /\ out.requests <= 1

\* C18: validate_file accepts exactly the files that exist, are at most
\* max_file_size long, have an allowed media type and contain no risky
\* pattern; the checks run in that order and stop at the first that fails.
C18_ValidateFileDecision ==
  out.op = "validate_file"
  => /\ out.ret => FirstFailing(out.arg) = 5
     /\ out.fault = "none"
          => /\ out.ret <=> FirstFailing(out.arg) = 5
             /\ out.steps = SubSeq(<<"exists", "size", "type", "scan">>, 1,
                                    IF FirstFailing(out.arg) = 5 THEN 4
                                    ELSE FirstFailing(out.arg))

\* a file of exactly the maximum size is accepted
C18_Witness ==
  /\ out.op = "validate_file" /\ out.ret
  /\ out.arg.size = max_file_size
  /\ out.steps = <<"exists", "size", "type", "scan">>

\* C19: an accepted URL has scheme http(s), a domain that is not
\* blocklisted, a probe answered with status 200, a content-length header
\* of at most max_url_size and an allowed content type.
C19_AcceptedUrl ==
  (out.op = "validate_url" /\ out.ret)
  => /\ out.arg.scheme \in {"http", "https"}
     /\ out.arg.host \notin blocked_domains
     /\ out.net.status = 200
     /\ out.net.content_length # ""
     /\ ~int(out.net.content_length).exc
     /\ int(out.net.content_length).val <= max_url_size
     /\ split_params(out.net.content_type) \in allowed_mime_types

\* file i of the batch fails validation and validation is on
Fails(i) == validate /\ ~validate_file(file_paths[i], "none").ret

\* the job of file i, if one was submitted
JobOf(i) == { j \in DOMAIN futures : futures[j].file = i }

\* C20: a file that fails validation is never submitted; once the submit
\* loop is over every other file has a job; every submitted job runs to
\* its end; convert_files returns, without raising, after every job is
\* done, also when every file was rejected.
C20_BatchContinues ==
  /\ [](\A i \in DOMAIN file_paths : Fails(i) => JobOf(i) = {})
  /\ [](cpc = "collect" => \A i \in DOMAIN file_paths : ~Fails(i) => JobOf(i) # {})
  /\ [](result.returned
          => /\ ~result.raised
             /\ \A i \in DOMAIN file_paths :
                  ~Fails(i) => \E j \in JobOf(i) : futures[j].state = "done")
  /\ \A j \in 1..MaxFiles :
       (j \in DOMAIN futures /\ futures[j].state = "queued")
         ~> (j \in DOMAIN futures /\ futures[j].state = "done")
  /\ (cpc = "submit") ~> (cpc = "idle" /\ result.returned)

\* a batch returned in which a rejected file came before a file that was
\* converted to the end
C20_Witness ==
  /\ cpc = "idle" /\ result.returned /\ validate
  /\ \E i, k \in DOMAIN file_paths :
       /\ i < k
       /\ Fails(i) /\ ~Fails(k)
       /\ \E j \in JobOf(k) : futures[j].state = "done"

\* C21: every key of the in-memory index and of the persisted document is
\* the hex storage identifier of its blob (the name of the blob file),
\* never the logical key, and every value holds timestamp and size.
C21_IndexKeysAreStorageIds ==
  /\ \A i \in DOMAIN metadata :
       /\ metadata[i].key \in StorageIds
       /\ {"timestamp", "size"} \subseteq DOMAIN metadata[i].val
  /\ \A i \in DOMAIN metadata_file.content :
       /\ metadata_file.content[i].key \in StorageIds
       /\ {"timestamp", "size"} \subseteq DOMAIN metadata_file.content[i].val

\* every index entry has its blob and every blob its index entry
Consistent(s) == \A key \in Keys : Has(s.metadata, key) <=> Exists(s, key)

\* what the size check of set and the sweep it may start leave
Swept(s) ==
  IF get_cache_size(s) > max_size_bytes THEN cleanup_old_items(s, "none") ELSE s

\* the sweep run on s removed entries oldest first (equal timestamps in
\* insertion order), removed none when the stored total was already at most
\* 80% of the ceiling, and left a total of at most 80% or an empty index
SweepStopsInTime(s) ==
  LET r == cleanup_old_items(s, "none")
      items == sorted_items(s.metadata)
      ts(p) == Field(s.metadata[p].val, "timestamp")
      Removed(key) == ~Has(r.metadata, key)
  IN /\ \A p, q \in DOMAIN s.metadata :
          (Removed(s.metadata[p].key) /\ ~Removed(s.metadata[q].key))
            => (ts(p) < ts(q) \/ (ts(p) = ts(q) /\ p < q))
     /\ \A i \in DOMAIN items :
          Removed(items[i].key)
            => get_cache_size(RemoveAll(s, SubSeq(items, 1, i - 1), 1, "none")) * 10
                 > max_size_bytes * 8
     /\ get_cache_size(r) * 10 <= max_size_bytes * 8 \/ r.metadata = <<>>

\* C22: an eviction sweep removes entries in ascending order of timestamp,
\* equal timestamps in insertion order, removes no entry once the total
\* stored size is at most 80% of the ceiling, and on return the total is at
\* most 80% of the ceiling or the index is empty.
C22_EvictionOrderAndStop ==
  [][ \A key \in Keys, value \in EvictPayloads :
        ( /\ Set(key, value, NoExtra, "none")
          /\ Consistent(Cur)
          /\ get_cache_size(Cur) > max_size_bytes )
        => SweepStopsInTime(Cur) ]_vars

\* the sum of the size fields of the index entries
RECURSIVE IndexSum(_, _)
IndexSum(m, i) ==
  IF i > Len(m) THEN 0 ELSE Field(m[i].val, "size") + IndexSum(m, i + 1)

\* C23: set runs the eviction sweep exactly when, as it starts, the sum of
\* the sizes of the index entries is above the ceiling; the size of the
\* persisted document and blobs without index entry play no part.
C23_EvictionTrigger ==
  [][ \A key \in Keys, value \in EvictPayloads :
        Set(key, value, NoExtra, "none")
        => ( get_cache_size(Cur) > max_size_bytes
               <=> IndexSum(metadata, 1) > max_size_bytes ) ]_vars

\* C24: after a successful set(k, v, extra), whatever fields extra holds
\* and whether or not k had an entry, the entry of k has the time of this
\* set as timestamp, the length of the stored blob as size, the other
\* fields of extra and no further field, and a get(k) that follows returns
\* the new v.
C24_SetReplacesWholesale ==
  (last.op = "set" /\ last.ok /\ last.fault = "none" /\ ~restarted)
  => /\ Has(metadata, last.key)
     /\ LET entry == Lookup(metadata, last.key)
        IN /\ DOMAIN entry = {"timestamp", "size"} \cup DOMAIN last.extra
           /\ entry.timestamp = last.time
           /\ entry.size = files[hashed_key(last.key)].len
           /\ \A f \in DOMAIN last.extra \ {"timestamp", "size"} :
                entry[f] = last.extra[f]
     /\ last.value.kind = "bytes"
          => get(Cur, last.key, "none", now).data = last.value

\* the instance __init__ has after _load_metadata and before the cold sweep
Loaded(s) == [s EXCEPT !.dir = TRUE, !.metadata = load_metadata(s, "none")]

\* over the directory s at time t, the cold sweep removes a key whose blob
\* is on disk exactly if get would treat it as expired, and it leaves no
\* expired entry and no blob of one
PathsAgree(s, t) ==
  LET unswept == Loaded(s)
      swept == init(s, "none", t)
  IN /\ \A key \in Keys :
          Exists(unswept, key)
            => ( ~Exists(swept, key)
                   <=> LET g == get(unswept, key, "none", t)
                       IN g.data = NoData /\ ~Exists(g.s, key) )
     /\ \A i \in DOMAIN swept.metadata : ~Expired(swept.metadata[i].val, t)
     /\ \A key \in Keys :
          (Has(unswept.metadata, key) /\ Expired(Lookup(unswept.metadata, key), t))
            => ~Exists(swept, key)

\* C25: for every directory a construction may find and every key whose
\* blob is on disk, the cold sweep of the construction removes the key if
\* and only if a get of it at the same time would treat it as expired;
\* after the construction no index entry is expired and no blob of an
\* expired entry remains.
C25_TtlPathsAgree ==
  [][ /\ Restart => PathsAgree(Cur, now)
      /\ \A key \in Keys, point \in SetCrashPoints :
           CrashInSet(key, BytesOf("x", 600), point)
             => PathsAgree(set_crash(Cur, key, BytesOf("x", 600), point, now), now)
      /\ \A key \in Keys, point \in InvalidateCrashPoints :
           CrashInInvalidate(key, point)
             => PathsAgree(invalidate_crash(Cur, key, point), now) ]_vars

\* C26: a get of a key whose index entry was loaded while its blob is
\* missing returns a miss and does not raise, and from then on the entry
\* takes no part in the eviction accounting: the size check and the sweep
\* of the next set leave the blobs they would leave without that entry.
C26_MissingBlobIsLazyMiss ==
  ( /\ last.op = "get" /\ last.fault = "none" /\ ~restarted
    /\ Has(metadata, last.key)
    /\ ~Exists(Cur, last.key) )
  => /\ ~last.ok /\ ~last.raised /\ last.data = NoData
     /\ Swept(Cur).files
          = Swept([Cur EXCEPT !.metadata = Pop(metadata, last.key)]).files

\* the place of a step in the pipeline of one job
Rank(step) ==
  CASE step = "validate" -> 1
    [] step = "analyze" -> 2
    [] step = "key" -> 3
    [] step = "get" -> 4
    [] step \in {"copy", "render"} -> 5
    [] OTHER -> 6

\* C27: the steps of every job come in the order validate, derive key,
\* get, then render on a miss, then set; with validation on, a job starts
\* with the validation and no job exists for a file that failed it; the
\* renderer is not called after a hit, set is called only after a render,
\* and on a hit the job consumes what get returned and succeeds.
C27_PipelineOrder ==
  /\ \A i \in DOMAIN file_paths : Fails(i) => JobOf(i) = {}
  /\ \A j \in DOMAIN futures :
       LET steps == futures[j].steps
       IN futures[j].state = "done"
          => /\ \A p, q \in DOMAIN steps : p < q => Rank(steps[p]) < Rank(steps[q])
             /\ validate => steps[1] = "validate"
             /\ Contains(steps, "copy") => ~Contains(steps, "render")
             /\ Contains(steps, "set") => Contains(steps, "render")
             /\ Contains(steps, "copy") => futures[j].result

\* C28: under any interleaving of get, set, invalidate and clear calls of
\* the workers, with or without failing file system steps, the lock is held
\* by a worker inside a call only, some worker with a call under way can
\* always take a step, every started call returns and frees the lock, and
\* every waiting call gets the lock.
C28_CallsCompleteAndRelease ==
  /\ [](\A w \in Workers : InCall(w) <=> lock = w)
  /\ []((\E w \in Workers : pc[w] # "idle")
          => ENABLED (\E w \in Workers : Acquire(w) \/ Step(w)))
  /\ \A w \in Workers : (pc[w] = "wait") ~> (lock = w)
  /\ \A w \in Workers : (pc[w] # "idle") ~> (pc[w] = "idle" /\ lock # w)

\* a set whose write failed has returned and freed the lock (the blob is
\* left empty and without index entry), and another worker holds the lock
C28_Witness ==
  \E v, w \in Workers :
    /\ pc[v] = "idle"
    /\ lock = w /\ InCall(w)
    /\ files[hashed_key("a")] = BytesOf("", 0)
    /\ ~Has(metadata, "a")

\* the blob and the index entry of the key are after the step what they
\* were before
Kept(key) ==
  /\ files'[hashed_key(key)] = files[hashed_key(key)]
  /\ Has(metadata', key) <=> Has(metadata, key)
  /\ Has(metadata, key) => Lookup(metadata', key) = Lookup(metadata, key)

\* the step took the entry or the blob of the key away
Gone(key) ==
  \/ Has(metadata, key) /\ ~Has(metadata', key)
  \/ Exists(Cur, key) /\ files'[hashed_key(key)] = NoData

\* set finds the directory above the ceiling and runs the eviction sweep
Sweeping ==
  /\ \E key \in Keys, value \in Payloads : Set(key, value, NoExtra, "none")
  /\ get_cache_size(Cur) > max_size_bytes

\* C29: the entry and the blob of a key disappear only in invalidate of
\* that key, in clear, in the cold sweep of a construction when the entry
\* is expired, in a get of that key when it is expired, or in a set that
\* runs the eviction sweep; get and invalidate of a key and a set without
\* sweep leave the blob and the entry of every other key as they are.
C29_RemovalPaths ==
  [][ \A k2 \in Keys :
        /\ \A k1 \in Keys \ {k2} :
             (Get(k1, "none") \/ Invalidate(k1, "none")) => Kept(k2)
        /\ \A k1 \in Keys \ {k2}, value \in Payloads :
             (Set(k1, value, NoExtra, "none") /\ ~Sweeping) => Kept(k2)
        /\ Gone(k2)
             => \/ Invalidate(k2, "none")
                \/ Clear("none")
                \/ Restart /\ Has(metadata, k2) /\ Expired(Lookup(metadata, k2), now)
                \/ Get(k2, "none") /\ Has(metadata, k2) /\ Expired(Lookup(metadata, k2), now)
                \/ Sweeping ]_vars

\* a get removed the expired entry it was called for and left the entry of
\* the other key, expired as well, in place
C29_Witness ==
  /\ prev.op = "set" /\ last.op = "get" /\ last.key = prev.key /\ ~last.ok
  /\ last.time - prev.time > ttl_seconds
  /\ ~restarted /\ ~last.restarted
  /\ ~Has(metadata, last.key)
  /\ \E k2 \in Keys \ {last.key} :
       /\ Has(metadata, k2) /\ Exists(Cur, k2)
       /\ Expired(Lookup(metadata, k2), now)

\* the cache as the step leaves it
After == [dir |-> cache_dir', doc |-> metadata_file', files |-> files',
          metadata |-> metadata']

\* C30: a set that returns failure because writing the blob or taking its
\* size failed changes nothing observable: a following get of the key gives
\* what it would have given without that set, the index entry of the key
\* still describes the blob on disk, and no blob without an index entry has
\* been created.
C30_FailedSetChangesNothing ==
  [][ \A fault \in {"write_open", "write", "stat"} :
        (Set("a", BytesOf("x", 600), NoExtra, fault) /\ ~last'.ok)
          => /\ get(After, "a", "none", now).data = get(Cur, "a", "none", now).data
             /\ Has(metadata', "a")
                  => /\ Exists(After, "a")
                     /\ Field(Lookup(metadata', "a"), "size") = files'[hashed_key("a")].len
             /\ (Exists(After, "a") /\ ~Exists(Cur, "a")) => Has(metadata', "a") ]_vars

\* the bytes of the blob files in the cache directory
BlobBytes == SumFiles(files, StorageIds)

\* C31: without I/O fault, when a set(k, v) returns the blobs on disk hold
\* at most the ceiling plus the size of v, and no other step adds to them,
\* so that between calls the total is never above the ceiling by more than
\* the payload written last.
C31_SizeBoundAfterSet ==
  [][ /\ \A key \in Keys, value \in SizePayloads, extra \in SizeExtras :
           Set(key, value, extra, "none")
             => SumFiles(files', StorageIds) <= max_size_bytes + Encode(value).len
      /\ ~(\E key \in Keys, value \in SizePayloads, extra \in SizeExtras :
             Set(key, value, extra, "none"))
           => SumFiles(files', StorageIds) <= BlobBytes ]_vars

\* C32: without I/O fault, whenever the lock is free every blob in the cache
\* directory has an entry in the index of the instance and in the persisted
\* document, the size of that entry is the length of the blob, and the
\* sizes of the index add up to the bytes of the blobs.
C32_NoOrphanBlobs ==
  lock = 0
    => /\ \A key \in Keys :
            Exists(Cur, key)
              => /\ Has(metadata, key)
                 /\ Field(Lookup(metadata, key), "size") = files[hashed_key(key)].len
                 /\ Has(load_metadata(Cur, "none"), key)
                 /\ Field(Lookup(load_metadata(Cur, "none"), key), "size")
                      = files[hashed_key(key)].len
       /\ IndexSum(metadata, 1) = BlobBytes

====
